---- MODULE Spec2Model ----
(***************************************************************************)
(* Model of youtube_subscription_transfer.py: the resumable batch import   *)
(* (import_subscriptions), the per-item retry policy                       *)
(* (subscribe_to_channel), the progress file (save_progress,               *)
(* load_progress, clear_progress), the snapshot file (save_subscriptions,  *)
(* load_subscriptions), the paged extraction (extract_subscriptions) and   *)
(* the interactive menu (main).                                            *)
(*                                                                         *)
(* Indices are 0-based as in the Python source; the item with index k is   *)
(* subscriptions[k + 1].  One process runs at a time; a process can be     *)
(* killed between any two steps and the progress file survives it.         *)
(***************************************************************************)
EXTENDS Integers, Sequences, FiniteSets, TLC

VARIABLES
    subscriptions,   \* the list handed to import_subscriptions (channel ids)
    progress_file,   \* content of PROGRESS_FILE on disk
    resume_mode,     \* self.resume_mode of the running process
    pc,              \* position of the process inside import_subscriptions
    progress,        \* local `progress` of import_subscriptions
    start_index,     \* local `start_index`
    i,               \* loop index of `for i, subscription in enumerate(...)`
    stats,           \* local `stats`
    attempt,         \* loop index of `for attempt in range(max_retries)`
    calls,           \* outcomes of the insert calls made for the current item
    sleeps,          \* time.sleep durations inside the current subscribe call
    ret,             \* value returned by the subscribe_to_channel call that
                     \* has just returned (pc = "returned"); FALSE otherwise
    visited,         \* indices for which the loop body was entered, in order
    trace,           \* how each visited item ended, in order
    ledger_log,      \* what the last save_progress/clear_progress call logged
    item_sleeps,     \* number of time.sleep(self.wait_time) calls of the run
    summaries,       \* the i+1 of every "Progress: i+1/total" line logged
    exc_origin,      \* function an uncaught exception escaped from
    interrupted_at,  \* index whose attempt a kill cut short, -1 if none
    precheck_calls,  \* subscriptions().list calls made by the run so far
    mutation_calls,  \* subscriptions().insert calls made by the run so far
    args_resume,     \* args.resume of the interactive session
    existing_progress, \* main's `existing_progress`
    menu_pc,         \* position of main: "none" when main is not modelled
    menu_choice,     \* the menu action chosen last
    menu_out,        \* the last message main printed
    authenticated,   \* account of self.youtube_service
    account,         \* the subscriptions the source account holds
    next_page_token, \* extract_subscriptions' next_page_token: the number of
                     \* items before the next page, 0 for no token
    snapshot_file,   \* content of SUBSCRIPTIONS_DATA_FILE on disk
    extracted,       \* the list handed to save_subscriptions
    save_ret,        \* value returned by the last save_subscriptions call
    snap_pc          \* progress of a save/load sequence on the snapshot file

runVars == <<subscriptions, progress_file, resume_mode, pc, progress,
             start_index, i, stats, attempt, calls, sleeps, ret, visited,
             trace, ledger_log, item_sleeps, summaries, exc_origin,
             interrupted_at, precheck_calls, mutation_calls>>

countVars == <<precheck_calls, mutation_calls>>

extVars == <<account, next_page_token>>

sessionVars == <<args_resume, existing_progress, menu_pc, menu_choice,
                 menu_out, authenticated, extVars>>

snapVars == <<snapshot_file, extracted, save_ret, snap_pc>>

vars == <<runVars, sessionVars, snapVars>>

(***************************************************************************)
(* Bounds and program constants                                            *)
(***************************************************************************)
MaxLen == 3                 \* longest subscription list explored

max_retries == 3            \* default of subscribe_to_channel's max_retries

SummaryEvery == 10          \* `if processed % 10 == 0`

maxResults == 50            \* page size asked of subscriptions().list

LongLen == 10               \* length of the long lists explored

MaxSubs == 2                \* longest list saved to the snapshot file

MenuLen == 2                \* longest list of an interactive session

LiveLen == 2                \* longest list of the runs whose calls are counted

NoIndex == 0 - 1            \* "no index": interrupted_at when nothing was cut

(***************************************************************************)
(* The progress file.  A file is absent, holds a progress record, or holds *)
(* something else: text json.load rejects, a JSON object without the       *)
(* last_processed_index key, a JSON value that is not an object but is     *)
(* truthy (a non-empty list), or a falsy JSON value (null, {}, []).        *)
(***************************************************************************)
Absent == [kind |-> "absent"]

Unparseable == [kind |-> "unparseable"]

\* {} and every other falsy JSON value: `if progress:` treats them alike.
EmptyDict == [kind |-> "falsy"]

Record(index, channel_id, total) ==
    [kind |-> "rec", last_processed_index |-> index,
     last_channel_id |-> channel_id, total_subscriptions |-> total]

OtherFiles ==
    {Absent, Unparseable, EmptyDict, [kind |-> "noindex"], [kind |-> "nondict"]}

\* load_progress: the parsed document, or {} when the file is missing or
\* json.load raises.
load_progress(file) ==
    IF file.kind \in {"absent", "unparseable"} THEN EmptyDict ELSE file

\* `if progress:` -- Python truthiness of the loaded value.
Truthy(p) == p.kind \in {"rec", "noindex", "nondict"}

\* Faulty variant of ResumeStartIndex: one index too far.
ResumeStartIndexOffByOne(p) ==
    (IF p.kind = "rec" THEN p.last_processed_index ELSE 0) + 2

\* progress.get('last_processed_index', 0) + 1
ResumeStartIndex(p) ==
    (IF p.kind = "rec" THEN p.last_processed_index ELSE 0) + 1

\* save_progress: ok writes the record; "openfail" leaves the file as it was
\* (open raised); "writefail" leaves a truncated file (json.dump raised after
\* open(..., 'w') emptied it).  Both failures are logged and swallowed.
SaveResults == {"ok", "openfail", "writefail"}

\* Faulty variants of save_progress: one removes the file when open fails,
\* one writes the index of the next item.
save_progress_lossy(file, index, channel_id, total, how) ==
    CASE how = "ok" -> Record(index, channel_id, total)
      [] how = "openfail" -> Absent
      [] how = "writefail" -> Unparseable

save_progress_next(file, index, channel_id, total, how) ==
    CASE how = "ok" -> Record(index + 1, channel_id, total)
      [] how = "openfail" -> file
      [] how = "writefail" -> Unparseable

\* What save_progress logs: "Failed to save progress" (line 340) or nothing.
save_progress_log(how) == IF how = "ok" THEN "none" ELSE "save_failed"

save_progress(file, index, channel_id, total, how) ==
    CASE how = "ok" -> Record(index, channel_id, total)
      [] how = "openfail" -> file
      [] how = "writefail" -> Unparseable

\* Faulty variants of clear_progress: one never removes the file, one empties
\* it instead of removing it.
clear_progress_noop(file, ok) == file

clear_progress_truncate(file, ok) ==
    IF file.kind # "absent" /\ ok THEN Unparseable ELSE file

\* clear_progress: os.remove when the file exists; a failing os.remove is
\* logged and swallowed and leaves the file.
clear_progress(file, ok) ==
    IF file.kind # "absent" /\ ok THEN Absent ELSE file

\* What clear_progress logs: "Progress file cleared" (line 365), "Failed to
\* clear progress" (line 367), or nothing when there is no file.
clear_progress_log(file, ok) ==
    CASE file.kind = "absent" -> "none"
      [] file.kind # "absent" /\ ok -> "cleared"
      [] OTHER -> "clear_failed"

(***************************************************************************)
(* The snapshot file (save_subscriptions, load_subscriptions).  The file is *)
(* missing, holds text json.load rejects, a JSON value that is not an       *)
(* object, an object without the subscriptions key, or a snapshot document. *)
(* A document on disk holds its strings as JSON writes them.                *)
(***************************************************************************)
Missing == [kind |-> "missing"]

BadSnapshots ==
    {Missing, [kind |-> "unparseable"], [kind |-> "nondict"], [kind |-> "nokey"]}

\* The keys of a Subscription record (lines 164-170).
Fields ==
    {"channel_id", "channel_title", "channel_description", "published_at",
     "subscription_id"}

\* json.dump with ensure_ascii=False (line 209): a quote and a backslash are
\* written behind a backslash, a newline as backslash n, any other
\* character, ASCII or not, as it is.
RECURSIVE Escape(_)
Escape(t) ==
    IF t = <<>> THEN <<>>
    ELSE (CASE Head(t) = "\"" -> <<"\\", "\"">>
            [] Head(t) = "\\" -> <<"\\", "\\">>
            [] Head(t) = "\n" -> <<"\\", "n">>
            [] OTHER -> <<Head(t)>>) \o Escape(Tail(t))

\* json.load (line 236) on a string: a backslash and the character behind it
\* stand for one character.
RECURSIVE Unescape(_)
Unescape(e) ==
    IF e = <<>> THEN <<>>
    ELSE IF Head(e) # "\\" THEN <<Head(e)>> \o Unescape(Tail(e))
    ELSE IF Len(e) = 1 THEN <<>>
    ELSE <<IF e[2] = "n" THEN "\n" ELSE e[2]>> \o Unescape(Tail(Tail(e)))

EncodeRecord(r) == [f \in Fields |-> Escape(r[f])]

DecodeRecord(r) == [f \in Fields |-> Unescape(r[f])]

\* The document of lines 203-207 as it lies on disk.
Snapshot(total, list) ==
    [kind |-> "doc",
     export_date |-> <<"n", "o", "w">>,
     total_subscriptions |-> total,
     subscriptions |-> [k \in 1..Len(list) |-> EncodeRecord(list[k])]]

\* Faulty variant of load_subscriptions: it trusts the stored count.
load_subscriptions_by_total(file) ==
    IF file.kind # "doc" THEN <<>>
    ELSE [k \in 1..(IF file.total_subscriptions < Len(file.subscriptions)
                       THEN file.total_subscriptions
                       ELSE Len(file.subscriptions))
            |-> DecodeRecord(file.subscriptions[k])]

\* Lines 234-244: data.get('subscriptions', []); any exception gives [].
load_subscriptions(file) ==
    IF file.kind # "doc" THEN <<>>
    ELSE [k \in 1..Len(file.subscriptions) |-> DecodeRecord(file.subscriptions[k])]

\* Lines 202-219.  open(filename, 'w') truncates the file before json.dump
\* writes it; "openfail" fails in open, "writefail" in json.dump.
save_subscriptions(file, list, how) ==
    CASE how = "ok" -> Snapshot(Len(list), list)
      [] how = "openfail" -> file
      [] how = "writefail" -> [kind |-> "unparseable"]

\* The value save_subscriptions returns (lines 212, 216).
save_subscriptions_ret(how) == IF how = "ok" THEN "True" ELSE "False"

(***************************************************************************)
(* subscribe_to_channel                                                    *)
(***************************************************************************)
\* What request.execute() can do: return, raise HttpError with a reason,
\* raise HttpError whose error_details is truthy but whose first element is
\* not a mapping ("badDetails": error_details[0].get raises inside the
\* handler), or raise another Exception.  A missing reason reads 'unknown'
\* and is an "otherReason".
Outcomes ==
    {"Success", "subscriptionDuplicate", "channelNotFound", "quotaExceeded",
     "rateLimitExceeded", "otherReason", "badDetails", "Exception"}

\* wait_time = (2 ** attempt) * 5
RateLimitBackoff(a) == (2 ^ a) * 5

\* Faulty variant of LinearBackoff: the wait does not grow.
LinearBackoffFlat(a) == 2

\* wait_time = (attempt + 1) * 2
LinearBackoff(a) == (a + 1) * 2

\* Faulty variants of Disposition: quotaExceeded, respectively
\* channelNotFound, handled like an unclassified reason.
DispositionRetryQuota(o, a) ==
    CASE o \in {"Success", "subscriptionDuplicate"} -> [do |-> "return", value |-> TRUE]
      [] o = "channelNotFound" -> [do |-> "return", value |-> FALSE]
      [] o = "rateLimitExceeded" ->
            IF a < max_retries - 1
            THEN [do |-> "retry", wait |-> RateLimitBackoff(a)]
            ELSE [do |-> "return", value |-> FALSE]
      [] o \in {"otherReason", "Exception", "quotaExceeded"} ->
            IF a < max_retries - 1
            THEN [do |-> "retry", wait |-> LinearBackoff(a)]
            ELSE [do |-> "next"]
      [] o = "badDetails" -> [do |-> "raise"]

DispositionRetryNotFound(o, a) ==
    CASE o \in {"Success", "subscriptionDuplicate"} -> [do |-> "return", value |-> TRUE]
      [] o = "quotaExceeded" -> [do |-> "return", value |-> FALSE]
      [] o = "rateLimitExceeded" ->
            IF a < max_retries - 1
            THEN [do |-> "retry", wait |-> RateLimitBackoff(a)]
            ELSE [do |-> "return", value |-> FALSE]
      [] o \in {"otherReason", "Exception", "channelNotFound"} ->
            IF a < max_retries - 1
            THEN [do |-> "retry", wait |-> LinearBackoff(a)]
            ELSE [do |-> "next"]
      [] o = "badDetails" -> [do |-> "raise"]

\* The branch taken for one outcome of the attempt with index a:
\*   [do |-> "return", value |-> b]   return b
\*   [do |-> "retry",  wait |-> s]    time.sleep(s); continue
\*   [do |-> "next"]                  log, leave the try, next iteration
\*   [do |-> "raise"]                 an exception leaves the function
Disposition(o, a) ==
    CASE o \in {"Success", "subscriptionDuplicate"} -> [do |-> "return", value |-> TRUE]
      [] o \in {"channelNotFound", "quotaExceeded"} -> [do |-> "return", value |-> FALSE]
      [] o = "rateLimitExceeded" ->
            IF a < max_retries - 1
            THEN [do |-> "retry", wait |-> RateLimitBackoff(a)]
            ELSE [do |-> "return", value |-> FALSE]
      [] o \in {"otherReason", "Exception"} ->
            IF a < max_retries - 1
            THEN [do |-> "retry", wait |-> LinearBackoff(a)]
            ELSE [do |-> "next"]
      [] o = "badDetails" -> [do |-> "raise"]

(***************************************************************************)
(* import_subscriptions                                                    *)
(***************************************************************************)
NewStats(total) ==
    [total |-> total, successful |-> 0, failed |-> 0,
     already_subscribed |-> 0, skipped |-> 0]

\* Faulty variant of TallyPreHit: the item is counted successful as well.
TallyPreHitAsSuccess(s) ==
    [s EXCEPT !.already_subscribed = @ + 1, !.successful = @ + 1]

\* stats after the pre-check found the channel already subscribed
TallyPreHit(s) == [s EXCEPT !.already_subscribed = @ + 1]

\* Faulty variant of Tally: a false return is not counted.
TallyDropFailed(s, r) ==
    IF r THEN [s EXCEPT !.successful = @ + 1] ELSE s

\* stats after subscribe_to_channel returned r
Tally(s, r) ==
    IF r THEN [s EXCEPT !.successful = @ + 1] ELSE [s EXCEPT !.failed = @ + 1]

n == Len(subscriptions)

Running == {"loop", "precheck", "subscribe", "returned"}

Stopped == {"idle", "done", "raised"}

\* A text is a sequence of characters.  The Subscription record of the k-th
\* channel, as extract_subscriptions builds it (lines 164-170).
Sub(k) ==
    [channel_id |-> <<"U", "C", ToString(k)>>,
     channel_title |-> <<"t", ToString(k)>>,
     channel_description |-> <<>>,
     published_at |-> <<"2", "0", "2", "0">>,
     subscription_id |-> <<"s", ToString(k)>>]

ListOf(m) == [k \in 1..m |-> Sub(k)]

\* The lists explored.
Lists == {ListOf(m) : m \in 1..MaxLen}

\* Records an earlier run (over this list or a longer one) or the operator
\* may have left on disk; last_processed_index = -1 is the record that makes
\* a resume run start at index 0.
RecordsOnDisk ==
    {Record(x, Sub(x + 1).channel_id, MaxLen) : x \in (0 - 1)..MaxLen}

\* The variables of one import_subscriptions call.
frameVars == <<pc, progress, start_index, i, stats, attempt, calls, sleeps, ret,
               visited, trace, ledger_log, item_sleeps, summaries, exc_origin,
               interrupted_at, precheck_calls, mutation_calls>>

\* No call of import_subscriptions is under way.
Parked ==
    /\ pc = "idle"
    /\ progress = EmptyDict
    /\ start_index = 0
    /\ i = 0
    /\ stats = NewStats(0)
    /\ attempt = 0
    /\ calls = <<>>
    /\ sleeps = <<>>
    /\ ret = FALSE
    /\ visited = <<>>
    /\ trace = <<>>
    /\ ledger_log = "none"
    /\ item_sleeps = 0
    /\ summaries = <<>>
    /\ exc_origin = "none"
    /\ interrupted_at = NoIndex
    /\ precheck_calls = 0
    /\ mutation_calls = 0

\* No process is running; the list is one of L, the disk holds one of F.
Idle(L, F) ==
    /\ subscriptions \in L
    /\ progress_file \in F
    /\ resume_mode = FALSE
    /\ Parked

\* main and the snapshot file are left out.
NoSession ==
    /\ args_resume = FALSE
    /\ existing_progress = EmptyDict
    /\ menu_pc = "none"
    /\ menu_choice = "none"
    /\ menu_out = "none"
    /\ authenticated = "none"
    /\ account = <<>>
    /\ next_page_token = 0

NoSnapshot ==
    /\ snapshot_file = Missing
    /\ extracted = <<>>
    /\ save_ret = "none"
    /\ snap_pc = "none"

\* No process is running; the disk holds any progress file.
Init == Idle(Lists, OtherFiles \cup RecordsOnDisk) /\ NoSession /\ NoSnapshot

\* Locals of a process that has not entered the loop body yet.
FreshLocals ==
    /\ i' = 0
    /\ attempt' = 0
    /\ calls' = <<>>
    /\ sleeps' = <<>>
    /\ ret' = FALSE
    /\ visited' = <<>>
    /\ trace' = <<>>
    /\ item_sleeps' = 0
    /\ summaries' = <<>>
    /\ precheck_calls' = 0
    /\ mutation_calls' = 0

\* Lines 379-401 when self.resume_mode is false: clear_progress, and
\* start_index stays 0.  `list` is the argument of import_subscriptions.
FreshEntry(list) ==
    /\ \E ok \in BOOLEAN :
         /\ progress_file' = clear_progress(progress_file, ok)
         /\ ledger_log' = clear_progress_log(progress_file, ok)
    /\ progress' = EmptyDict
    /\ start_index' = 0
    /\ stats' = NewStats(Len(list))
    /\ pc' = "loop"
    /\ exc_origin' = "none"
    /\ interrupted_at' = NoIndex
    /\ FreshLocals

\* Lines 379-396 when self.resume_mode is true.
ResumeEntry(list) ==
    /\ progress' = load_progress(progress_file)
    /\ ledger_log' = "none"
    /\ FreshLocals
    /\ IF Truthy(progress') /\ progress'.kind = "nondict"
       THEN \* progress.get raises AttributeError out of import_subscriptions
            /\ pc' = "raised"
            /\ exc_origin' = "import_subscriptions"
            /\ start_index' = 0
            /\ stats' = NewStats(Len(list))
            /\ interrupted_at' = NoIndex
       ELSE /\ pc' = "loop"
            /\ exc_origin' = "none"
            /\ start_index' = IF Truthy(progress') THEN ResumeStartIndex(progress') ELSE 0
            /\ stats' = [NewStats(Len(list)) EXCEPT !.skipped = start_index']
            /\ interrupted_at' = IF pc = "idle" THEN interrupted_at ELSE NoIndex
    /\ UNCHANGED progress_file

\* A new process without --resume calls import_subscriptions.
StartFresh ==
    /\ pc \in Stopped
    /\ resume_mode' = FALSE
    /\ FreshEntry(subscriptions)
    /\ UNCHANGED <<subscriptions, sessionVars, snapVars>>

\* A new process with --resume calls import_subscriptions.
StartResume ==
    /\ pc \in Stopped
    /\ resume_mode' = TRUE
    /\ ResumeEntry(subscriptions)
    /\ UNCHANGED <<subscriptions, sessionVars, snapVars>>

\* The process is gone: every local is lost, only the file stays.
ProcessGone ==
    /\ pc' = "idle"
    /\ resume_mode' = FALSE
    /\ progress' = EmptyDict
    /\ start_index' = 0
    /\ stats' = NewStats(0)
    /\ ledger_log' = "none"
    /\ exc_origin' = "none"
    /\ FreshLocals

\* Lines 403-406: an index below start_index is skipped.
SkipIndex ==
    /\ UNCHANGED <<sessionVars, snapVars, countVars>>
    /\ pc = "loop"
    /\ i < n
    /\ i < start_index
    /\ i' = i + 1
    /\ UNCHANGED <<subscriptions, progress_file, resume_mode, pc, progress,
                   start_index, stats, attempt, calls, sleeps, ret, visited,
                   trace, ledger_log, item_sleeps, summaries, exc_origin,
                   interrupted_at>>

\* Lines 408-414: the loop body is entered for index i and save_progress
\* runs before anything else is done for the item.
SaveStepOn(H) ==
    /\ UNCHANGED <<sessionVars, snapVars, countVars>>
    /\ pc = "loop"
    /\ i < n
    /\ i >= start_index
    /\ \E how \in H :
         /\ progress_file' = save_progress(progress_file, i,
                                           subscriptions[i + 1].channel_id,
                                           stats.total, how)
         /\ ledger_log' = save_progress_log(how)
    /\ visited' = Append(visited, i)
    /\ pc' = "precheck"
    /\ UNCHANGED <<subscriptions, resume_mode, progress, start_index, i, stats,
                   attempt, calls, sleeps, ret, trace, item_sleeps, summaries,
                   exc_origin, interrupted_at>>

SaveStep == SaveStepOn(SaveResults)

\* Lines 416-420 with is_already_subscribed (446-466): the list query
\* returns items, returns none, raises HttpError (caught, False) or raises
\* something else (not caught: it leaves import_subscriptions).
PreCheckResults == {"subscribed", "not_subscribed", "HttpError", "Exception"}

is_already_subscribed(r) == r = "subscribed"

PreCheckStep(R) ==
    /\ UNCHANGED <<sessionVars, snapVars>>
    /\ pc = "precheck"
    /\ \E r \in R :
         CASE r = "Exception" ->
                /\ pc' = "raised"
                /\ exc_origin' = "is_already_subscribed"
                /\ UNCHANGED <<i, stats, trace>>
           [] r # "Exception" /\ is_already_subscribed(r) ->
                /\ stats' = TallyPreHit(stats)
                /\ trace' = Append(trace, "precheck")
                /\ i' = i + 1
                /\ pc' = "loop"
                /\ UNCHANGED exc_origin
           [] OTHER ->
                /\ pc' = "subscribe"
                /\ UNCHANGED <<i, stats, trace, exc_origin>>
    /\ UNCHANGED <<subscriptions, progress_file, resume_mode, progress,
                   start_index, attempt, calls, sleeps, ret, visited,
                   ledger_log, item_sleeps, summaries, interrupted_at>>

\* The pre-check, the calls of the run not being counted.
PreCheckOn(R) == PreCheckStep(R) /\ UNCHANGED countVars

PreCheck == PreCheckOn(PreCheckResults)

\* Lines 258-318: one iteration of `for attempt in range(max_retries)`.
AttemptStep(O) ==
    /\ UNCHANGED <<sessionVars, snapVars>>
    /\ pc = "subscribe"
    /\ \E o \in O :
         LET d == Disposition(o, attempt) IN
         /\ calls' = Append(calls, o)
         /\ CASE d.do = "return" ->
                   /\ ret' = d.value
                   /\ pc' = "returned"
                   /\ UNCHANGED <<attempt, sleeps, exc_origin>>
              [] d.do = "retry" ->
                   /\ sleeps' = Append(sleeps, d.wait)
                   /\ attempt' = attempt + 1
                   /\ UNCHANGED <<pc, ret, exc_origin>>
              [] d.do = "next" ->
                   IF attempt + 1 < max_retries
                   THEN /\ attempt' = attempt + 1
                        /\ UNCHANGED <<pc, ret, sleeps, exc_origin>>
                   ELSE \* the loop is exhausted: line 318
                        /\ ret' = FALSE
                        /\ pc' = "returned"
                        /\ UNCHANGED <<attempt, sleeps, exc_origin>>
              [] d.do = "raise" ->
                   /\ pc' = "raised"
                   /\ exc_origin' = "subscribe_to_channel"
                   /\ UNCHANGED <<attempt, sleeps, ret>>
    /\ UNCHANGED <<subscriptions, progress_file, resume_mode, progress,
                   start_index, i, stats, visited, trace, ledger_log,
                   item_sleeps, summaries, interrupted_at>>

\* One attempt, the calls of the run not being counted.
AttemptOn(O) == AttemptStep(O) /\ UNCHANGED countVars

Attempt == AttemptOn(Outcomes)

\* Lines 423-435: the counter for the returned value, the inter-item sleep,
\* the periodic summary, and on to the next index.  The frame of the
\* subscribe_to_channel call is gone.
TallyStep ==
    /\ UNCHANGED <<sessionVars, snapVars, countVars>>
    /\ pc = "returned"
    /\ stats' = Tally(stats, ret)
    /\ trace' = Append(trace, calls[Len(calls)])
    /\ i' = i + 1
    /\ pc' = "loop"
    /\ attempt' = 0
    /\ calls' = <<>>
    /\ sleeps' = <<>>
    /\ ret' = FALSE
    /\ item_sleeps' = item_sleeps + 1
    /\ summaries' = IF (i + 1 - start_index) % SummaryEvery = 0
                     THEN Append(summaries, i + 1)
                     ELSE summaries
    /\ UNCHANGED <<subscriptions, progress_file, resume_mode, progress,
                   start_index, visited, ledger_log, exc_origin,
                   interrupted_at>>

\* Lines 437-444: the loop is over; clear_progress, then return stats.
Finish ==
    /\ UNCHANGED <<sessionVars, snapVars, countVars>>
    /\ pc = "loop"
    /\ i >= n
    /\ \E ok \in BOOLEAN :
         /\ progress_file' = clear_progress(progress_file, ok)
         /\ ledger_log' = clear_progress_log(progress_file, ok)
    /\ pc' = "done"
    /\ UNCHANGED <<subscriptions, resume_mode, progress, start_index, i, stats,
                   attempt, calls, sleeps, ret, visited, trace, item_sleeps,
                   summaries, exc_origin, interrupted_at>>

\* The operator kills the process between two steps.  The kill cuts the
\* attempt of item i short when the record for i is on disk and neither
\* the pre-check nor the mutation for i has completed.
CutShort ==
    IF /\ pc \in {"precheck", "subscribe"}
       /\ progress_file.kind = "rec"
       /\ progress_file.last_processed_index = i
    THEN i
    ELSE NoIndex

Crash ==
    /\ UNCHANGED <<sessionVars, snapVars>>
    /\ pc \in Running
    /\ interrupted_at' = CutShort
    /\ ProcessGone
    /\ UNCHANGED <<subscriptions, progress_file>>

\* The process is killed inside save_progress, after open(..., 'w') emptied
\* the file and before json.dump completed.
CrashMidWrite ==
    /\ UNCHANGED <<sessionVars, snapVars>>
    /\ pc = "loop"
    /\ i < n
    /\ i >= start_index
    /\ progress_file' = Unparseable
    /\ interrupted_at' = NoIndex
    /\ ProcessGone
    /\ UNCHANGED subscriptions

Next ==
    \/ StartFresh
    \/ StartResume
    \/ SkipIndex
    \/ SaveStep
    \/ PreCheck
    \/ Attempt
    \/ TallyStep
    \/ Finish
    \/ Crash
    \/ CrashMidWrite

Spec == Init /\ [][Next]_vars

(***************************************************************************)
(* Termination.  The remote calls of a run are counted, no process is       *)
(* killed, and the statements of import_subscriptions follow one another:   *)
(* each remote call returns or raises and each sleep ends, so a run that    *)
(* can take a step takes it.                                                *)
(***************************************************************************)
LiveLists == {ListOf(m) : m \in 1..LiveLen}

InitLive ==
    /\ NoSession
    /\ NoSnapshot
    /\ Idle(LiveLists, {Absent, Record(0, Sub(1).channel_id, LiveLen)})

\* Lines 417-418 and 454-458: one subscriptions().list call.
PreCheckCounted ==
    /\ PreCheckStep(PreCheckResults)
    /\ precheck_calls' = precheck_calls + 1
    /\ UNCHANGED mutation_calls

\* Lines 272-279: one subscriptions().insert call.
AttemptCounted ==
    /\ AttemptStep(Outcomes)
    /\ mutation_calls' = mutation_calls + 1
    /\ UNCHANGED precheck_calls

RunStep ==
    \/ SkipIndex
    \/ SaveStep
    \/ PreCheckCounted
    \/ AttemptCounted
    \/ TallyStep
    \/ Finish

\* The one run of the process: without and with --resume.
RunFresh == pc = "idle" /\ StartFresh

RunResume == pc = "idle" /\ StartResume

NextLive == RunFresh \/ RunResume \/ RunStep

SpecLive == InitLive /\ [][NextLive]_vars /\ WF_vars(RunStep)

(***************************************************************************)
(* Long lists.  The periodic summary of lines 431-435 needs a run of at    *)
(* least SummaryEvery items; such lists are explored with every ledger     *)
(* write succeeding, the pre-check answering yes or no and every insert    *)
(* succeeding, and without kills.                                          *)
(***************************************************************************)
LongLists == {ListOf(LongLen)}

InitLong ==
    /\ NoSession
    /\ NoSnapshot
    /\ Idle(LongLists, {Absent, Record(0, Sub(1).channel_id, LongLen),
                     Record(1, Sub(2).channel_id, LongLen)})

SaveStepOk == SaveStepOn({"ok"})

PreCheckAnswered == PreCheckOn({"subscribed", "not_subscribed"})

AttemptSucceeds == AttemptOn({"Success"})

NextLong ==
    \/ StartFresh
    \/ StartResume
    \/ SkipIndex
    \/ SaveStepOk
    \/ PreCheckAnswered
    \/ AttemptSucceeds
    \/ TallyStep
    \/ Finish

SpecLong == InitLong /\ [][NextLong]_vars

(***************************************************************************)
(* Saving and loading a snapshot.  A list of records whose titles and       *)
(* descriptions hold the characters JSON escapes is saved, possibly         *)
(* failing, and the file is loaded back; the file found on disk may be      *)
(* anything, a document with a wrong total_subscriptions included.          *)
(***************************************************************************)
SnapTexts ==
    {<<>>, <<"a">>, <<"\"">>, <<"\\">>, <<"\n">>, <<"\\", "n">>,
     <<"é", "\\", "\"">>}

SnapDescriptions == {<<>>, <<"\"", "b", "\\">>}

SnapLists ==
    UNION {[1..m -> SnapTexts \X SnapDescriptions] : m \in 0..MaxSubs}

\* The list of records whose k-th title and description are texts[k].
SnapList(texts) ==
    [k \in 1..Len(texts) |->
        [Sub(k) EXCEPT !.channel_title = texts[k][1],
                       !.channel_description = texts[k][2]]]

InitSnapshot ==
    /\ subscriptions = <<>>
    /\ progress_file = Absent
    /\ resume_mode = FALSE
    /\ Parked
    /\ NoSession
    /\ \E texts \in SnapLists : extracted = SnapList(texts)
    /\ snapshot_file \in
         {Missing, [kind |-> "unparseable"],
          Snapshot(0, ListOf(1)), Snapshot(MaxSubs + 1, ListOf(1))}
    /\ save_ret = "none"
    /\ snap_pc = "start"

\* save_subscriptions(extracted)
SaveSubscriptions ==
    /\ snap_pc = "start"
    /\ \E how \in SaveResults :
         /\ snapshot_file' = save_subscriptions(snapshot_file, extracted, how)
         /\ save_ret' = save_subscriptions_ret(how)
    /\ snap_pc' = "saved"
    /\ UNCHANGED <<runVars, sessionVars, extracted>>

\* subscriptions = load_subscriptions()
LoadSubscriptions ==
    /\ snap_pc \in {"start", "saved"}
    /\ subscriptions' = load_subscriptions(snapshot_file)
    /\ snap_pc' = "loaded"
    /\ UNCHANGED <<progress_file, resume_mode, frameVars, sessionVars,
                   snapshot_file, extracted, save_ret>>

NextSnapshot == SaveSubscriptions \/ LoadSubscriptions

SpecSnapshot == InitSnapshot /\ [][NextSnapshot]_vars

(***************************************************************************)
(* main: the interactive menu (lines 497-648).  One menu action runs from   *)
(* the prompt to the next prompt or to the entry of import_subscriptions;   *)
(* the import itself then runs step by step, with every ledger write        *)
(* succeeding, the pre-check answering yes or no and every insert           *)
(* succeeding.  The ledger holds what save_progress wrote, or nothing.      *)
(***************************************************************************)
\* The value None (line 638).
NoneValue == [kind |-> "falsy"]

MenuLists == {ListOf(m) : m \in 0..MenuLen}

\* Lines 497-500.
InitMenu ==
    /\ args_resume \in BOOLEAN
    /\ resume_mode = args_resume
    /\ progress_file \in {Absent, Record(0, Sub(1).channel_id, MenuLen),
                          Record(1, Sub(2).channel_id, MenuLen)}
    /\ existing_progress = load_progress(progress_file)
    /\ snapshot_file \in BadSnapshots \cup {Snapshot(Len(l), l) : l \in MenuLists}
    /\ subscriptions = <<>>
    /\ Parked
    /\ menu_pc = "menu"
    /\ menu_choice = "none"
    /\ menu_out = "none"
    /\ authenticated = "none"
    /\ account \in MenuLists
    /\ next_page_token = 0
    /\ extracted = <<>>
    /\ save_ret = "none"
    /\ snap_pc = "none"

\* Lines 507, 575: the resume action is on the menu.
ResumeOffered == Truthy(existing_progress) /\ ~args_resume

\* Faulty variant of NoData: the check of lines 550 and 582 is missing.
NoDataNever(list) == FALSE

\* Lines 550, 582: `if not subscriptions`.
NoData(list) == list = <<>>

\* Lines 548-573 and 581-612: load the snapshot, authenticate, ask, and call
\* import_subscriptions, the tool's resume_mode being `mode`.
Launch(choice, mode) ==
    LET list == load_subscriptions(snapshot_file) IN
    /\ subscriptions' = list
    /\ resume_mode' = mode
    /\ menu_choice' = choice
    /\ UNCHANGED <<args_resume, existing_progress, extVars, snapVars>>
    /\ IF NoData(list)
       THEN /\ menu_out' = "No subscription data found"
            /\ menu_pc' = "menu"
            /\ UNCHANGED <<authenticated, progress_file, frameVars>>
       ELSE \E auth \in BOOLEAN, confirm \in {"y", "n"} :
            IF ~auth
            THEN /\ menu_out' = "Authentication failed"
                 /\ menu_pc' = "menu"
                 /\ UNCHANGED <<authenticated, progress_file, frameVars>>
            ELSE /\ authenticated' = "destination"
                 /\ IF confirm = "n"
                    THEN /\ menu_out' = "cancelled"
                         /\ menu_pc' = "menu"
                         /\ UNCHANGED <<progress_file, frameVars>>
                    ELSE /\ menu_out' = "none"
                         /\ menu_pc' = "running"
                         /\ IF mode THEN ResumeEntry(list) ELSE FreshEntry(list)

\* Choice 1 (lines 522-531): authenticate('source'), then
\* extract_subscriptions starts with an empty list and no page token
\* (lines 148-149).
MenuExtract ==
    /\ menu_pc = "menu"
    /\ menu_choice' = "extract"
    /\ \E auth \in BOOLEAN :
         IF ~auth
         THEN /\ menu_out' = "Authentication failed"
              /\ UNCHANGED <<menu_pc, authenticated, extracted, next_page_token>>
         ELSE /\ menu_out' = "none"
              /\ menu_pc' = "extracting"
              /\ authenticated' = "source"
              /\ extracted' = <<>>
              /\ next_page_token' = 0
    /\ UNCHANGED <<runVars, args_resume, existing_progress, account,
                   snapshot_file, save_ret, snap_pc>>

\* The sizes the server may give the page that starts after `token` items:
\* at least one item while any is left, at most maxResults.
PageSizes(token) ==
    IF token >= Len(account) THEN {0}
    ELSE {k \in 1..(Len(account) - token) : k <= maxResults}

\* The nextPageToken of the response: absent on the last page.
NextToken(token, size) ==
    IF token + size < Len(account) THEN token + size ELSE 0

\* Lines 153-184: one pass of `while True`.  The request returns a page, or
\* raises HttpError (caught: the loop is left with the pages read so far), or
\* raises something else, which leaves extract_subscriptions and main.
ExtractPage ==
    /\ menu_pc = "extracting"
    /\ \E result \in {"page", "HttpError", "Exception"} :
         CASE result = "page" ->
                \E size \in PageSizes(next_page_token) :
                  /\ extracted' = extracted \o SubSeq(account, next_page_token + 1,
                                                      next_page_token + size)
                  /\ next_page_token' = NextToken(next_page_token, size)
                  /\ menu_pc' = IF next_page_token' = 0 THEN "extracted"
                                                        ELSE "extracting"
           [] result = "HttpError" ->
                /\ menu_pc' = "extracted"
                /\ UNCHANGED <<extracted, next_page_token>>
           [] result = "Exception" ->
                /\ menu_pc' = "crashed"
                /\ UNCHANGED <<extracted, next_page_token>>
    /\ UNCHANGED <<runVars, args_resume, existing_progress, menu_choice,
                   menu_out, authenticated, account, snapshot_file, save_ret,
                   snap_pc>>

\* Lines 532-540: extract_subscriptions returned; a non-empty list is saved.
MenuExtractDone ==
    /\ menu_pc = "extracted"
    /\ menu_pc' = "menu"
    /\ subscriptions' = extracted
    /\ IF extracted = <<>>
       THEN /\ menu_out' = "No subscriptions found or extraction failed"
            /\ UNCHANGED <<snapshot_file, save_ret>>
       ELSE \E how \in SaveResults :
            /\ snapshot_file' = save_subscriptions(snapshot_file, extracted, how)
            /\ save_ret' = save_subscriptions_ret(how)
            /\ menu_out' = IF save_ret' = "True"
                           THEN "Success!"
                           ELSE "Failed to save subscription data"
    /\ UNCHANGED <<progress_file, resume_mode, frameVars, args_resume,
                   existing_progress, menu_choice, authenticated, extVars,
                   extracted, snap_pc>>

\* Choice 2 (lines 544-573).
MenuImport ==
    /\ menu_pc = "menu"
    /\ Launch("import", resume_mode)

\* Choice 3 when a record was found at start-up and --resume was not given
\* (lines 575-612); line 578 sets the tool's resume_mode first.
MenuResume ==
    /\ menu_pc = "menu"
    /\ ResumeOffered
    /\ Launch("resume", TRUE)

\* View saved data (lines 614-630).
MenuView ==
    /\ menu_pc = "menu"
    /\ subscriptions' = load_subscriptions(snapshot_file)
    /\ menu_choice' = "view"
    /\ menu_out' = IF subscriptions' # <<>> THEN "Total subscriptions"
                                           ELSE "No subscription data found"
    /\ UNCHANGED <<progress_file, resume_mode, frameVars, args_resume,
                   existing_progress, menu_pc, authenticated, extVars, snapVars>>

\* Clear saved progress (lines 632-641).
MenuClear ==
    /\ menu_pc = "menu"
    /\ Truthy(existing_progress)
    /\ menu_choice' = "clear"
    /\ \E confirm \in {"y", "n"}, ok \in BOOLEAN :
         IF confirm = "y"
         THEN /\ progress_file' = clear_progress(progress_file, ok)
              /\ existing_progress' = NoneValue
              /\ menu_out' = "Progress cleared successfully."
         ELSE /\ menu_out' = "Operation cancelled."
              /\ UNCHANGED <<progress_file, existing_progress>>
    /\ UNCHANGED <<subscriptions, resume_mode, frameVars, args_resume, menu_pc,
                   authenticated, extVars, snapVars>>

\* Exit (lines 643-645).
MenuExit ==
    /\ menu_pc = "menu"
    /\ menu_pc' = "exited"
    /\ menu_choice' = "exit"
    /\ menu_out' = "Goodbye!"
    /\ UNCHANGED <<runVars, args_resume, existing_progress, authenticated,
                   extVars, snapVars>>

\* import_subscriptions returns to main, which prints the counters and
\* prompts again (lines 565-569, 602-607).
MenuReturn ==
    /\ menu_pc = "running"
    /\ pc = "done"
    /\ menu_pc' = "menu"
    /\ menu_out' = "Import completed!"
    /\ pc' = "idle"
    /\ progress' = EmptyDict
    /\ start_index' = 0
    /\ stats' = NewStats(0)
    /\ ledger_log' = "none"
    /\ exc_origin' = "none"
    /\ interrupted_at' = NoIndex
    /\ FreshLocals
    /\ UNCHANGED <<subscriptions, progress_file, resume_mode, args_resume,
                   existing_progress, menu_choice, authenticated, extVars,
                   snapVars>>

NextMenu ==
    \/ MenuExtract
    \/ ExtractPage
    \/ MenuExtractDone
    \/ MenuImport
    \/ MenuResume
    \/ MenuView
    \/ MenuClear
    \/ MenuExit
    \/ MenuReturn
    \/ SkipIndex
    \/ SaveStepOk
    \/ PreCheckAnswered
    \/ AttemptSucceeds
    \/ TallyStep
    \/ Finish

SpecMenu == InitMenu /\ [][NextMenu]_vars

(***************************************************************************)
(* Properties                                                              *)
(***************************************************************************)
InRun == pc \in Running \cup {"done", "raised"}

\* k, k+1, ..., k+m-1 as a sequence
Ascending(k, m) == [j \in 1..m |-> k + j - 1]

\* number of entries of the sequence q that lie in the set S
Count(q, S) == Cardinality({j \in 1..Len(q) : q[j] \in S})

\* C1: when a run was killed after the record for index i was written and
\* before the pre-check or mutation for item i completed, a following
\* resume run over the same list starts at an index <= i, so it
\* re-attempts item i.
C1_ResumeReattemptsCutItem ==
    (resume_mode /\ pc \in Running /\ interrupted_at # NoIndex)
        => start_index <= interrupted_at

\* C2: a resume run that finds a record with last_processed_index = k-1,
\* 0 <= k < n, starts at k, reports skipped = k, enters the loop body for k
\* first and then for k, k+1, ..., n-1 once each in ascending order.
C2_ResumeVisitsFromK ==
    (resume_mode /\ InRun /\ progress.kind = "rec"
       /\ 0 <= progress.last_processed_index + 1
       /\ progress.last_processed_index + 1 < n)
        => LET k == progress.last_processed_index + 1 IN
           /\ start_index = k
           /\ stats.skipped = k
           /\ visited = Ascending(k, Len(visited))
           /\ Len(visited) <= n - k
           /\ (pc \in {"precheck", "subscribe", "returned"} => visited # <<>>)
           /\ (pc = "done" => visited = Ascending(k, n - k))

C2_Witness ==
    /\ resume_mode
    /\ pc = "done"
    /\ progress.kind = "rec"
    /\ progress.last_processed_index = 0
    /\ n = 3
    /\ visited = <<1, 2>>
    /\ stats.skipped = 1

\* C3 (as stated): a run without resume mode has removed the progress file
\* before its first item, processes index 0 first and reports skipped = 0.
C3_FreshRunClearsRecord ==
    (~resume_mode /\ InRun)
        => /\ start_index = 0
           /\ stats.skipped = 0
           /\ (visited # <<>> => visited[1] = 0)
           /\ (pc = "loop" /\ visited = <<>> => progress_file = Absent)

\* C3 (amended): a run without resume mode never reads the progress file:
\* it calls clear_progress before its first item, which removes the file
\* unless the removal itself fails (logged and swallowed, file left as it
\* was); the first item processed is index 0 and skipped = 0.
C3_FreshRunIgnoresRecord ==
    (~resume_mode /\ InRun)
        => /\ start_index = 0
           /\ stats.skipped = 0
           /\ progress = EmptyDict
           /\ (visited # <<>> => visited[1] = 0)
           /\ (pc = "loop" /\ visited = <<>> /\ ledger_log # "clear_failed"
                 => progress_file = Absent)
           /\ (pc = "loop" /\ visited = <<>> /\ ledger_log = "clear_failed"
                 => progress_file # Absent)

C3_Witness ==
    /\ ~resume_mode
    /\ pc = "loop"
    /\ ledger_log = "cleared"
    /\ visited = <<>>
    /\ start_index = 0
    /\ stats.skipped = 0
    /\ progress_file = Absent

\* C4: every item whose processing ended incremented exactly one of
\* successful, failed, already_subscribed, and a complete run without
\* resume mode returns successful + failed + already_subscribed = total =
\* the list length.
OkOutcomes == {"Success", "subscriptionDuplicate"}

FailedOutcomes ==
    {"channelNotFound", "quotaExceeded", "rateLimitExceeded", "otherReason",
     "Exception"}

C4_CountersPartitionItems ==
    InRun
        => /\ stats.already_subscribed = Count(trace, {"precheck"})
           /\ stats.successful = Count(trace, OkOutcomes)
           /\ stats.failed = Count(trace, FailedOutcomes)
           /\ stats.successful + stats.failed + stats.already_subscribed = Len(trace)
           /\ (pc = "done" /\ ~resume_mode
                 => /\ stats.total = n
                    /\ stats.successful + stats.failed + stats.already_subscribed
                         = stats.total)

C4_Witness ==
    /\ ~resume_mode
    /\ pc = "done"
    /\ n = 3
    /\ stats.successful = 1
    /\ stats.failed = 1
    /\ stats.already_subscribed = 1

\* C5 (as stated): after a complete run no progress file exists.
C5_NoRecordAfterCompleteRun ==
    pc = "done" => progress_file = Absent

\* C5 (amended): a complete run ends with a clear_progress call whatever the
\* items' results were, so afterwards no progress file exists unless that
\* removal failed (logged and swallowed); a file survives a run only if the
\* run was interrupted or the removal failed.
C5_NoRecordUnlessClearFailed ==
    pc = "done"
        => /\ (ledger_log # "clear_failed" => progress_file = Absent)
           /\ (ledger_log = "clear_failed" => progress_file # Absent)

C5_Witness ==
    /\ pc = "done"
    /\ n = 3
    /\ visited = <<0, 1, 2>>
    /\ stats.failed = 3
    /\ ledger_log = "cleared"
    /\ progress_file = Absent

\* C6: when every mutation attempt of a call was rate limited, the call made
\* 4 attempts separated by sleeps of 5, 10 and 20 seconds and returned false.
C6_RateLimitedFourAttempts ==
    (pc = "returned" /\ \A j \in 1..Len(calls) : calls[j] = "rateLimitExceeded")
        => /\ Len(calls) = 4
           /\ sleeps = <<5, 10, 20>>
           /\ ret = FALSE

\* C7: a channelNotFound or quotaExceeded outcome ends the call at once
\* with false: it is the last attempt of the call and no sleep follows it;
\* as a first outcome it leaves exactly one attempt and no sleep.
Permanent == {"channelNotFound", "quotaExceeded"}

C7_PermanentReturnsFalseAtOnce ==
    \A j \in 1..Len(calls) :
        calls[j] \in Permanent
            => /\ j = Len(calls)
               /\ pc # "subscribe"
               /\ ret = FALSE
               /\ Len(sleeps) = j - 1

C7_Witness ==
    /\ pc = "returned"
    /\ calls = <<"channelNotFound">>
    /\ sleeps = <<>>
    /\ ret = FALSE

\* C8: a call makes at most max_retries attempts; an otherReason or
\* non-HTTP exception on the attempt with 0-based index a is followed by a
\* sleep of exactly 2*(a+1) seconds when attempts remain, and by a false
\* return with no sleep when it was the last allowed attempt; Success or
\* subscriptionDuplicate on any attempt returns true at once.
Transient == {"otherReason", "Exception"}

C8_TransientLinearBackoff ==
    /\ Len(calls) <= max_retries
    /\ \A j \in 1..Len(calls) :
         /\ calls[j] \in Transient /\ j < max_retries
              => /\ Len(sleeps) >= j
                 /\ sleeps[j] = 2 * j
                 /\ (j = Len(calls) => pc = "subscribe" /\ Len(sleeps) = j)
         /\ calls[j] \in Transient /\ j = max_retries
              => /\ j = Len(calls)
                 /\ pc # "subscribe"
                 /\ ret = FALSE
                 /\ Len(sleeps) = j - 1
         /\ calls[j] \in OkOutcomes
              => /\ j = Len(calls)
                 /\ pc # "subscribe"
                 /\ ret = TRUE
                 /\ Len(sleeps) = j - 1

C8_Witness ==
    /\ pc = "returned"
    /\ calls = <<"otherReason", "Exception", "otherReason">>
    /\ sleeps = <<2, 4>>
    /\ ret = FALSE

\* C9: no exception leaves subscribe_to_channel: every call ends by
\* returning a boolean.
C9_SubscribeNeverRaises ==
    exc_origin # "subscribe_to_channel"

\* C10: a quotaExceeded outcome costs the item one attempt and no sleep,
\* counts it failed, and the run goes on to every later index; items
\* [A, B, C] with outcomes [Success, quotaExceeded, Success] and no
\* pre-check hit end with successful = 2, failed = 1, already_subscribed = 0.
C10_QuotaDoesNotAbortRun ==
    /\ (pc = "returned" /\ calls[1] = "quotaExceeded"
          => calls = <<"quotaExceeded">> /\ sleeps = <<>> /\ ret = FALSE)
    /\ (pc = "loop" /\ trace # <<>> /\ trace[Len(trace)] = "quotaExceeded"
          => /\ i = visited[Len(visited)] + 1
             /\ stats.failed >= 1)
    /\ (pc = "done" /\ Count(trace, {"quotaExceeded"}) > 0
          => /\ visited = Ascending(start_index, n - start_index)
             /\ Len(trace) = Len(visited)
             /\ stats.failed >= Count(trace, {"quotaExceeded"}))
    /\ (pc = "done" /\ n = 3 /\ trace = <<"Success", "quotaExceeded", "Success">>
          => /\ stats.successful = 2
             /\ stats.failed = 1
             /\ stats.already_subscribed = 0)

C10_Witness ==
    /\ pc = "done"
    /\ n = 3
    /\ visited = <<0, 1, 2>>
    /\ trace = <<"Success", "quotaExceeded", "Success">>
    /\ stats.successful = 2
    /\ stats.failed = 1

\* C11: when is_already_subscribed returns true for an item, no insert call
\* is made for it, already_subscribed grows by exactly one and successful
\* and failed stay; insert calls are made only after a pre-check that did
\* not return true; items [A, B] with the pre-check true only for B end
\* with already_subscribed = 1.
C11_PreCheckHitSkipsMutation ==
    [][/\ (pc = "precheck" /\ pc' = "loop")
            => /\ calls = <<>> /\ calls' = <<>>
               /\ trace' = Append(trace, "precheck")
               /\ stats'.already_subscribed = stats.already_subscribed + 1
               /\ stats'.successful = stats.successful
               /\ stats'.failed = stats.failed
       /\ (calls' # calls /\ calls' # <<>>) => pc = "subscribe"
       /\ (pc' = "done" /\ n = 2 /\ Len(trace') = 2
             /\ trace'[1] # "precheck" /\ trace'[2] = "precheck")
            => stats'.already_subscribed = 1
      ]_vars

C11_Witness ==
    /\ pc = "done"
    /\ n = 2
    /\ trace = <<"Success", "precheck">>
    /\ stats.already_subscribed = 1
    /\ stats.successful = 1
    /\ stats.failed = 0

\* C12: no error raised by the remote query of is_already_subscribed leaves
\* the function: every failure reads as "not subscribed".
C12_PreCheckErrorsSwallowed ==
    exc_origin # "is_already_subscribed"

\* C13 (as stated): a failing save_progress or clear_progress leaves the
\* progress file exactly as it was.
C13_FailedWriteKeepsRecord ==
    [][(ledger_log' \in {"save_failed", "clear_failed"}
          /\ pc \in Stopped \cup {"loop"} /\ pc' \in {"loop", "precheck", "done"})
         => progress_file' = progress_file
      ]_vars

\* C13 (amended): a failing save_progress or clear_progress is swallowed:
\* the run still enters the body for that item and every later one and its
\* statistics depend on the remote outcomes alone; the only effect is on the
\* progress file, which stays as it was, or is left truncated (read as "no
\* progress") when save_progress fails after opening the file.
C13_LedgerFailureNeverAborts ==
    /\ [][/\ (pc = "loop" /\ pc' = "precheck")
               => /\ visited' = Append(visited, i)
                  /\ i' = i
                  /\ stats' = stats
                  /\ (ledger_log' = "save_failed"
                        => progress_file' \in {progress_file, Unparseable})
          /\ (pc = "loop" /\ pc' = "done" /\ ledger_log' = "clear_failed")
               => progress_file' = progress_file /\ stats' = stats
          /\ (pc \in Stopped /\ pc' = "loop" /\ ledger_log' = "clear_failed")
               => progress_file' = progress_file /\ start_index' = 0
         ]_vars
    /\ [](InRun
            => /\ stats.already_subscribed = Count(trace, {"precheck"})
               /\ stats.successful = Count(trace, {"Success", "subscriptionDuplicate"})
               /\ stats.failed = Len(trace) - stats.successful - stats.already_subscribed
               /\ (pc = "done" /\ start_index <= n
                     => visited = Ascending(start_index, n - start_index)))

C13_Witness ==
    /\ pc = "done"
    /\ ~resume_mode
    /\ n = 3
    /\ visited = <<0, 1, 2>>
    /\ Len(trace) = 3
    /\ ledger_log = "clear_failed"
    /\ progress_file = Unparseable

\* C14: a resume run whose progress file holds no usable record (no file,
\* text that does not parse, a document without last_processed_index, a
\* document that is not a record) gets the empty state from load_progress,
\* starts at index 0 with skipped = 0 and never fails on the file.
C14_CorruptRecordStartsFresh ==
    (resume_mode /\ InRun /\ progress.kind # "rec")
        => /\ progress = EmptyDict
           /\ start_index = 0
           /\ stats.skipped = 0
           /\ exc_origin # "import_subscriptions"

\* C15: loading the snapshot file after a successful save_subscriptions
\* returns the saved records, in order and with every field intact, and the
\* document written holds total_subscriptions equal to the length of the
\* list; whatever document is on disk, load_subscriptions returns as many
\* records as its subscriptions sequence holds, whatever total_subscriptions
\* says.
C15_SnapshotRoundTrip ==
    snap_pc = "loaded"
        => /\ save_ret = "True"
                => /\ subscriptions = extracted
                   /\ snapshot_file.kind = "doc"
                   /\ snapshot_file.total_subscriptions = Len(extracted)
           /\ snapshot_file.kind = "doc"
                => Len(subscriptions) = Len(snapshot_file.subscriptions)

\* Two records with quotes, backslashes and a non-ASCII character came back.
C15_Witness ==
    /\ snap_pc = "loaded"
    /\ save_ret = "True"
    /\ Len(extracted) = 2
    /\ extracted[1].channel_title = <<"é", "\\", "\"">>
    /\ extracted[2].channel_title = <<"\\", "n">>
    /\ extracted[2].channel_description = <<"\"", "b", "\\">>
    /\ subscriptions = extracted

\* C16: when the import or the resume menu action is chosen and the snapshot
\* file is missing, unparseable, not an object or without the subscriptions
\* key, load_subscriptions returns the empty list; and whenever it returns
\* the empty list the action goes back to the menu without authenticating,
\* without touching the progress file and without entering
\* import_subscriptions (no remote call).
C16_NoDataStartsNoRun ==
    [][(menu_pc = "menu" /\ menu_choice' \in {"import", "resume"})
          => /\ snapshot_file \in BadSnapshots => subscriptions' = <<>>
             /\ subscriptions' = load_subscriptions(snapshot_file)
             /\ subscriptions' = <<>>
                  => /\ menu_pc' = "menu"
                     /\ menu_out' = "No subscription data found"
                     /\ UNCHANGED <<authenticated, progress_file, frameVars>>]_vars

\* The resume action found an unparseable snapshot file.
C16_Witness ==
    /\ menu_pc = "menu"
    /\ menu_choice = "resume"
    /\ menu_out = "No subscription data found"
    /\ snapshot_file = [kind |-> "unparseable"]
    /\ subscriptions = <<>>
    /\ authenticated = "none"
    /\ progress_file # Absent

\* C17: the loop body is entered in strictly ascending index order; while
\* the pre-check or a mutation attempt for item i is under way the
\* save_progress call for i has been made (a successful one left the record
\* (i, channel id of i, list length) on disk), and between two items no
\* remote call is under way.
C17_SaveBeforeRemoteCalls ==
    InRun
        => /\ visited = Ascending(start_index, Len(visited))
           /\ (pc \in {"precheck", "subscribe", "returned"}
                 => /\ visited # <<>>
                    /\ visited[Len(visited)] = i
                    /\ Len(trace) = Len(visited) - 1
                    /\ (ledger_log = "none"
                          => progress_file = Record(i, subscriptions[i + 1].channel_id, n)))
           /\ (pc \in {"loop", "done"}
                 => /\ calls = <<>>
                    /\ Len(trace) = Len(visited)
                    /\ (visited # <<>> => visited[Len(visited)] < i))

C17_Witness ==
    /\ pc = "subscribe"
    /\ i = 1
    /\ visited = <<0, 1>>
    /\ calls = <<"rateLimitExceeded">>
    /\ progress_file = Record(1, subscriptions[2].channel_id, n)

\* C18: the inter-item delay has been slept once for every item whose
\* processing ended, whatever its result.
C18_SleepAfterEveryItem ==
    InRun => item_sleeps = Len(trace)

\* C19: a progress summary has been logged for exactly those finished
\* items i with (i + 1 - start_index) a multiple of 10, whatever the item's
\* result was.
C19_SummaryEveryTenItems ==
    InRun
        => /\ \A k \in 1..Len(trace) :
                (visited[k] + 1 - start_index) % 10 = 0
                    => \E j \in 1..Len(summaries) : summaries[j] = visited[k] + 1
           /\ \A j \in 1..Len(summaries) :
                /\ (summaries[j] - start_index) % 10 = 0
                /\ \E k \in 1..Len(trace) : visited[k] + 1 = summaries[j]

\* C20: in a session started without --resume, a run launched by the import
\* menu action is a fresh run: the tool is not in resume mode, the run
\* starts at index 0 and has skipped nothing.
C20_ImportIsAlwaysFresh ==
    (~args_resume /\ menu_pc = "running" /\ menu_choice = "import")
        => /\ ~resume_mode
           /\ start_index = 0
           /\ stats.skipped = 0

\* C21: the statistics of a completed run satisfy 0 <= skipped <= total and
\* skipped + successful + failed + already_subscribed = total, whatever
\* progress record a resume run found.
C21_CountersWithinTotal ==
    pc = "done"
        => /\ 0 <= stats.skipped
           /\ stats.skipped <= stats.total
           /\ stats.skipped + stats.successful + stats.failed
                + stats.already_subscribed = stats.total

\* C22: every run of import_subscriptions ends, and ends by reaching
\* completion; each item entered gets at most one pre-check call and at most
\* max_retries insert calls, so the run makes at most
\* max_retries * (len(subscriptions) - start_index) insert calls.
C22_RunCompletesWithinBounds ==
    /\ [](InRun
            => /\ Len(calls) <= max_retries
               /\ precheck_calls <= Len(visited)
               /\ mutation_calls <= max_retries * Len(visited)
               /\ mutation_calls <= max_retries * (n - start_index))
    /\ (pc \in Running ~> pc = "done")

\* The part of C22 that the code keeps: a run ends, by completion or by an
\* exception leaving import_subscriptions, within the bounds on its calls.
C22_RunEndsWithinBounds ==
    /\ [](InRun
            => /\ Len(calls) <= max_retries
               /\ precheck_calls <= Len(visited)
               /\ mutation_calls <= max_retries * Len(visited)
               /\ mutation_calls <= max_retries * (n - start_index))
    /\ (pc \in Running ~> pc \in {"done", "raised"})

\* C23: when the extract menu action reports success, the list extracted and
\* the snapshot saved hold every subscription of the source account, in
\* order.
C23_SavedSnapshotIsComplete ==
    (menu_pc = "menu" /\ menu_choice = "extract" /\ menu_out = "Success!")
        => /\ subscriptions = account
           /\ load_subscriptions(snapshot_file) = account

====
